---- MODULE Spec2Model ----
(***************************************************************************)
(* Beam-search decoding of the unsupervised-translation transformer:       *)
(* MyBeamSearch.forward / format_sentences (src/src/model/                 *)
(* beam_search_wrapper.py) driving the beam engine (BeamSearch, whose code *)
(* is imported from src.onmt and is modelled here from section 4.6 of the  *)
(* specification) over a fixed deterministic decoder; and the operations  *)
(* of the Transformer object the wrapper drives: its construction,         *)
(* encode / sample_z / word_dropout (src/src/model/transformer.py),        *)
(* StackedDecoder (src/src/model/decoder.py), the trainer's get_tgt_mask   *)
(* (src/src/trainer.py) and SelfAttention (src/sublayers.py); and two      *)
(* calls of forward interleaved on one wrapper.                            *)
(*                                                                         *)
(* Rows, positions and example ids are 1-based here (sequences); the code  *)
(* is 0-based.  Token ids are the code's ids.                              *)
(***************************************************************************)
EXTENDS Integers, Sequences, FiniteSets, TLC

\* ---------------------------------------------------------------- bounds
MaxBatch == 2
MaxBeam == 3
MaxNBest == 2
MaxLength == 4
VocabSize == 5
NumModels == 24
\* inputs of the Transformer operations
MaxRows == 2
MaxSeqLen == 2
MaxSamples == 2
MaxTgtLen == 3
MaxLayers == 2
MaxAttLen == 2
\* two interleaved calls of forward
ConcMaxLength == 2
ConcModels == 3

\* ------------------------------------------------------ program constants
\* Transformer.__init__ defaults: bos_index = [0, 5], eos_index = 1,
\* pad_index = 2 (bos_index is indexed by language id).
bos_index == <<0, 5>>
eos_index == 1
pad_index == 2

\* Transformer.__init__ default: blank_index = 4 (the id word_dropout writes)
blank_index == 4

\* SelfAttention.forward: the score written where the mask is 0 (-1e9)
MaskedScore == -1000000000

\* log-probability of an impossible token (log 0)
NegInf == -1000000

VARIABLES
    pc,           \* position in forward: start, decode, advanced, checked, format, done, error
    batch_size,   \* batch.size(0)
    beam_size,    \* self.beam_size
    n_best,       \* self.n_best
    max_length,   \* self.max_length
    tgt_lang,     \* target language id + 1
    model,        \* which fixed decoder self.transformer is
    step,         \* loop variable of the decode loop
    dec_out,      \* decoder token history, one row per live hypothesis
    enc_out,      \* per row: the example whose encoder output the row holds
    src_mask,     \* per row: the example whose source mask the row holds
    log_probs,    \* per row: log-probabilities of the next token
    alive,        \* engine: live hypotheses [beam, toks, score]
    origin,       \* engine: current_origin (select_indices)
    is_finished,  \* engine: per live row, last token is EOS
    hypotheses,   \* engine: per example, the finished hypotheses
    beam_done,    \* engine: per example, done flag
    done,         \* engine: all beams done
    sent,         \* returned token tensor
    lengths,      \* returned length vector
    is_variational,   \* Transformer.is_variational
    is_shared_emb,    \* Transformer.is_shared_emb
    vocab_size,       \* Transformer.vocab_size, per language
    n_layers,         \* Transformer.n_layers
    word_drop,        \* Transformer.word_drop, in hundredths
    embedding_layers, \* decoder.embedding_layers: per language, the table object
    linear_layers,    \* Transformer.linear_layers: per language, the table object
    op,           \* the Transformer operation that was called, or "none"
    args,         \* its arguments
    ret,          \* what it returned or raised
    calls,        \* the methods it invoked, in order
    other         \* the local state of a second, interleaved call of forward

vars == <<pc, batch_size, beam_size, n_best, max_length, tgt_lang, model, step,
          dec_out, enc_out, src_mask, log_probs, alive, origin, is_finished,
          hypotheses, beam_done, done, sent, lengths,
          is_variational, is_shared_emb, vocab_size, n_layers, word_drop,
          embedding_layers, linear_layers, op, args, ret, calls, other>>

config == <<batch_size, beam_size, n_best, max_length, tgt_lang, model>>

\* the beam search's own state
search == <<pc, step, dec_out, enc_out, src_mask, log_probs, alive, origin,
            is_finished, hypotheses, beam_done, done, sent, lengths>>

\* the Transformer object's configuration and tables
transformer == <<is_variational, is_shared_emb, vocab_size, n_layers, word_drop,
                 embedding_layers, linear_layers>>

\* the record of the Transformer operation that was called
call == <<op, args, ret, calls>>

Vocab == 0 .. (VocabSize - 1)

\* ---------------------------------------------------------------- helpers
Last(s) == s[Len(s)]

RECURSIVE SeqMax(_)
SeqMax(s) == IF Len(s) = 1 THEN s[1]
             ELSE LET m == SeqMax(Tail(s)) IN IF s[1] > m THEN s[1] ELSE m

\* log-space accumulation; log 0 is absorbing
AddLog(a, b) == IF a = NegInf \/ b = NegInf THEN NegInf ELSE a + b

\* ------------------------------------------------------- the fixed decoder
\* Model 0 is the mock decoder of the scenario: probability 1 on the token
\* sequence [2, 3, EOS] for example 1 and on [4, EOS] for example 2.
ScenarioPath(e) == IF e = 1 THEN <<2, 3, eos_index>> ELSE <<4, eos_index>>

ScenarioLogP(e, prefix, t) ==
    LET path == ScenarioPath(e)
        k    == Len(prefix)
        want == IF k <= Len(path) THEN path[k] ELSE eos_index
    IN IF t = want THEN 0 ELSE NegInf

\* Models 1.. are arbitrary fixed decoders: the log-probability of token t is
\* a fixed function of the row's inputs (encoder output, source mask, token
\* prefix).
HashLogP(m, e, k, prefix, t) ==
    0 - ((m * (t + 1) + e * (2 * t + 1) + k * (t + 2)
          + Len(prefix) * (m + t) + (Last(prefix) + 1) * (t + 3) + t * t) % 7)

\* transformer.decode(dec_out, enc_out, src_mask, ...)[:, -1, :] followed by
\* log_softmax, for one row.
DecodeRow(m, e, k, prefix) ==
    [t \in Vocab |-> IF m = 0 THEN ScenarioLogP(e, prefix, t)
                     ELSE HashLogP(m, e, k, prefix, t)]

\* ------------------------------------------------- the beam engine (4.6)
\* Initial state: one live hypothesis per beam slot, each containing only
\* the target-language BOS id, score 0.  Rows (b-1)*K+1 .. b*K are beam b.
EngineInit(B, K, bos) ==
    [r \in 1 .. (B * K) |-> [beam |-> ((r - 1) \div K) + 1,
                             toks |-> <<bos>>,
                             score |-> 0]]

\* Step 1: candidate scores of one beam: the row's cumulative score plus the
\* log-probability of each next token.
Candidates(al, lp, b) ==
    { [row |-> i, tok |-> t, score |-> AddLog(al[i].score, lp[i][t])] :
        i \in {j \in DOMAIN al : al[j].beam = b}, t \in Vocab }

\* Length-normalised ("avg") comparison of two cumulative scores s1, s2 of
\* hypotheses with n1, n2 generated tokens: s1 / n1 > s2 / n2.
AvgGreater(s1, n1, s2, n2) ==
    IF s1 = NegInf THEN FALSE
    ELSE IF s2 = NegInf THEN TRUE
    ELSE s1 * n2 > s2 * n1

\* Step 2: ranking of the candidates of one step (all of the same length n):
\* by normalised score, ties broken by lower vocabulary id, then earlier slot.
Better(c, d, n) ==
    \/ AvgGreater(c.score, n, d.score, n)
    \/ /\ c.score = d.score
       /\ \/ c.tok < d.tok
          \/ (c.tok = d.tok /\ c.row < d.row)

RECURSIVE TopK(_, _, _)
TopK(S, k, n) ==
    IF k = 0 \/ S = {} THEN <<>>
    ELSE LET c == CHOOSE x \in S : \A d \in S \ {x} : Better(x, d, n)
         IN <<c>> \o TopK(S \ {c}, k - 1, n)

RECURSIVE SelectAll(_, _, _, _, _, _)
SelectAll(al, lp, K, n, b, B) ==
    IF b > B THEN <<>>
    ELSE TopK(Candidates(al, lp, b), K, n) \o SelectAll(al, lp, K, n, b + 1, B)

\* Step 3: BeamSearch.advance: extend the selected hypotheses, record the
\* origin index of every new row and flag the rows that end with EOS.
Advance(al, lp, K, B) ==
    LET n   == IF al = <<>> THEN 1 ELSE Len(al[1].toks)
        sel == SelectAll(al, lp, K, n, 1, B)
    IN [alive |-> [i \in 1 .. Len(sel) |->
                      [beam  |-> al[sel[i].row].beam,
                       toks  |-> Append(al[sel[i].row].toks, sel[i].tok),
                       score |-> sel[i].score]],
        origin |-> [i \in 1 .. Len(sel) |-> sel[i].row],
        is_finished |-> [i \in 1 .. Len(sel) |-> sel[i].tok = eos_index]]

\* Step 4: the finished rows of beam b, in rank order, appended to the
\* beam's finished list (which never holds more than n_best entries).  The
\* recorded token sequence leaves out the start token.
RECURSIVE Record(_, _, _, _, _, _)
Record(h, al, fin, nb, b, i) ==
    IF i > Len(al) THEN h
    ELSE IF al[i].beam = b /\ fin[i] /\ Len(h) < nb
         THEN Record(Append(h, [score |-> al[i].score,
                                n     |-> Len(al[i].toks) - 1,
                                toks  |-> Tail(al[i].toks)]),
                     al, fin, nb, b, i + 1)
         ELSE Record(h, al, fin, nb, b, i + 1)

RECURSIVE KeepRows(_, _, _, _)
KeepRows(al, fin, bd, i) ==
    IF i > Len(al) THEN <<>>
    ELSE IF ~fin[i] /\ ~bd[al[i].beam]
         THEN <<i>> \o KeepRows(al, fin, bd, i + 1)
         ELSE KeepRows(al, fin, bd, i + 1)

\* BeamSearch.update_finished: finished hypotheses leave the live set; a beam
\* is done when it holds n_best finished hypotheses or has no live row left,
\* and a done beam is not advanced any more.
UpdateFinished(al, orig, fin, hyps, nb, B) ==
    LET h2   == [b \in 1 .. B |-> Record(hyps[b], al, fin, nb, b, 1)]
        bd   == [b \in 1 .. B |->
                    \/ Len(h2[b]) >= nb
                    \/ ~ \E i \in DOMAIN al : al[i].beam = b /\ ~fin[i]]
        keep == KeepRows(al, fin, bd, 1)
    IN [alive  |-> [j \in 1 .. Len(keep) |-> al[keep[j]]],
        origin |-> [j \in 1 .. Len(keep) |-> orig[keep[j]]],
        is_finished |-> [j \in 1 .. Len(keep) |-> FALSE],
        hypotheses |-> h2,
        beam_done |-> bd,
        done |-> \A b \in 1 .. B : bd[b]]

\* BeamSearch.current_predictions: the last token of every live row.
CurrentPredictions(al) == [i \in 1 .. Len(al) |-> Last(al[i].toks)]

\* ------------------------------------------------------ the wrapper's code
\* x.repeat(beam_size, 1, ...): beam_size copies of the whole batch, one
\* after the other along dimension 0.
Repeat(x, K) ==
    [r \in 1 .. (Len(x) * K) |-> x[((r - 1) % Len(x)) + 1]]

\* the rows taken in place, without the reorder by the origin indices
GatherRowsInPlace(x, idx) ==
    [i \in 1 .. Len(idx) |-> x[IF i <= Len(x) THEN i ELSE Len(x)]]

\* x[select_indices]
GatherRows(x, idx) == [i \in 1 .. Len(idx) |-> x[idx[i]]]

\* the first row's token appended to every row
CatFirstWord(rows, next_word) ==
    [i \in 1 .. Len(rows) |-> Append(rows[i], next_word[1])]

\* torch.cat((dec_out, next_word), 1)
CatNextWord(rows, next_word) ==
    [i \in 1 .. Len(rows) |-> Append(rows[i], next_word[i])]

\* one start row per example only
InitDecOutPerExample(B, K, bos) == [r \in 1 .. B |-> <<bos>>]

\* lines 87-89: torch.ones(batch_size * beam_size, 1) * bos_index[tgt_lang]
InitDecOut(B, K, bos) == [r \in 1 .. (B * K) |-> <<bos>>]

\* the step's tokens appended to the rows before the reorder, the result
\* then reordered by the origin indices
AppendThenReorder(d, idx, next_word) ==
    [i \in 1 .. Len(idx) |->
        Append(d[idx[i]],
               next_word[IF idx[i] <= Len(next_word) THEN idx[i]
                                                      ELSE Len(next_word)])]

\* lines 125-133: dec_out = dec_out[select_indices], then
\* torch.cat((dec_out, next_word), 1)
ReorderThenAppend(d, idx, next_word) ==
    CatNextWord(GatherRows(d, idx), next_word)

\* a break as soon as any row has finished
BreakOnAnyFinished(any_beam_is_finished, d) == any_beam_is_finished

\* lines 109-113: `if any_beam_is_finished: ... if beamSearch.done: break`
BreakLoop(any_beam_is_finished, d) == any_beam_is_finished /\ d

\* a loop that runs one iteration too many
LoopContinuesInclusive(s, ml) == s <= ml

\* for step in range(self.max_length)
LoopContinues(s, ml) == s < ml

\* a row whose EOS is written one position early, over the last token
FormatRowEosEarly(s, len, w, bos) ==
    LET r0 == [p \in 1 .. w |-> pad_index]
        r1 == [r0 EXCEPT ![1] = bos]
        r2 == [p \in 1 .. w |-> IF p >= 2 /\ p <= len - 1 THEN s[p - 1] ELSE r1[p]]
    IN [r2 EXCEPT ![len - 1] = eos_index]

\* sent[i] of format_sentences: a row of width w filled with PAD, BOS at
\* position 0, the tokens of s copied behind it, EOS at lengths[i] - 1.
FormatRow(s, len, w, bos) ==
    LET r0 == [p \in 1 .. w |-> pad_index]
        r1 == [r0 EXCEPT ![1] = bos]
        r2 == [p \in 1 .. w |-> IF p >= 2 /\ p <= len - 1 THEN s[p - 1] ELSE r1[p]]
    IN [r2 EXCEPT ![len] = eos_index]

\* the hypothesis format_sentences reports for one example: beams[-1][1]
Reported(beams) == beams[Len(beams)].toks

\* lengths of format_sentences: s.shape[0] + 2
FormatLengths(hyps) == [i \in 1 .. Len(hyps) |-> Len(Reported(hyps[i])) + 2]

FormatSentences(hyps, bos) ==
    LET lens == FormatLengths(hyps)
        w    == SeqMax(lens)
    IN [i \in 1 .. Len(hyps) |-> FormatRow(Reported(hyps[i]), lens[i], w, bos)]

\* ------------------------------------------------- the Transformer object
\* A table object is [id, size]: id tells the objects apart, size is the
\* number of vocabulary entries it was allocated with.  Object 0 is the table
\* allocated first (decoder.py line 45, transformer.py line 72).

\* one table for all languages whatever the flag says
EmbeddingTablesAllShared(shared, vs) ==
    [l \in 1 .. Len(vs) |-> [id |-> 0, size |-> vs[1]]]

\* StackedDecoder.__init__, lines 45-51
EmbeddingTables(shared, vs) ==
    IF shared
    THEN [l \in 1 .. Len(vs) |-> [id |-> 0, size |-> vs[1]]]
    ELSE [l \in 1 .. Len(vs) |-> [id |-> l, size |-> vs[l]]]

\* Transformer.__init__, lines 72-78
LinearLayers(shared, vs) ==
    IF shared
    THEN [l \in 1 .. Len(vs) |-> [id |-> 0, size |-> vs[1]]]
    ELSE [l \in 1 .. Len(vs) |-> [id |-> l, size |-> vs[l]]]

\* the vocabulary sizes of the two languages (n_langs = 2)
VocabSizes == {<<VocabSize, VocabSize>>, <<VocabSize, VocabSize + 1>>}

\* params["word_drop"], in hundredths: none, a half, and a value the
\* assertion of word_dropout rejects
WordDrops == {0, 50, 100}

\* the Transformer after __init__
Constructed(v, shared, vs, n, wd) ==
    /\ is_variational = v
    /\ is_shared_emb = shared
    /\ vocab_size = vs
    /\ n_layers = n
    /\ word_drop = wd
    /\ embedding_layers = EmbeddingTables(shared, vs)
    /\ linear_layers = LinearLayers(shared, vs)

\* no second call of forward is in progress
NoOtherCall == [pc |-> "none"]

\* no operation of the Transformer has been called
NoCall ==
    /\ op = "none"
    /\ args = [none |-> TRUE]
    /\ ret = [none |-> TRUE]
    /\ calls = <<>>

\* tgt_mask=None, and a mask tensor m[b][q][k]
NoMask == [none |-> TRUE]

TensorMask(m) == [none |-> FALSE, m |-> m]

\* encoder outputs z[b][p] (one number per position) and the noise
\* shift[s][b] that rsample draws (line 167)
EncoderOutputs ==
    UNION { [1 .. B -> [1 .. L -> {0, 1}]] : B \in 1 .. MaxRows, L \in 1 .. MaxSeqLen }

Shifts(n, B) == [1 .. n -> [1 .. B -> {0, 2}]]

\* sampling skipped only for a non-variational model asked for no sample
SkipsSamplingBoth(v, n) == ~v /\ n <= 0

\* encode, line 109: `if not self.is_variational or n_samples <= 0`
SkipsSampling(v, n) == ~v \/ n <= 0

\* sample_z, line 170: shift.unsqueeze_(2).repeat(1, 1, z.size(1), 1)
RepeatOnLen(shift, L) ==
    [s \in DOMAIN shift |-> [b \in DOMAIN shift[s] |-> [p \in 1 .. L |-> shift[s][b]]]]

\* sample_z, line 173: z.unsqueeze_(0).repeat(n_samples, 1, 1, 1)
RepeatOnSample(z, n) == [s \in 1 .. n |-> z]

\* rows numbered with the sample index running fastest
ViewRowsSampleFastest(x, n, B) ==
    [r \in 1 .. (n * B) |-> x[((r - 1) % n) + 1][((r - 1) \div n) + 1]]

\* sample_z, line 177: z.view(n_samples * z.size(1), -1, d_model) of the
\* contiguous [n_samples, batch, len, d_model] tensor
ViewRows(x, n, B) ==
    [r \in 1 .. (n * B) |-> x[((r - 1) \div B) + 1][((r - 1) % B) + 1]]

\* sample_z, lines 167-177
SampleZ(z, shift, n) ==
    LET L  == Len(z[1])
        sh == RepeatOnLen(shift, L)
        zz == RepeatOnSample(z, n)
        sum == [s \in 1 .. n |-> [b \in 1 .. Len(z) |->
                   [p \in 1 .. L |-> zz[s][b][p] + sh[s][b][p]]]]
    IN ViewRows(sum, n, Len(z))

\* ------------------------------------------------------------ the program
\* After MyBeamSearch.__init__: the configuration is stored, forward has not
\* been called.
Init ==
    /\ pc = "start"
    /\ batch_size \in 0 .. MaxBatch
    /\ beam_size \in 1 .. MaxBeam
    /\ n_best \in 1 .. MaxNBest
    /\ max_length \in 1 .. MaxLength
    /\ tgt_lang \in 1 .. Len(bos_index)
    /\ model \in 0 .. NumModels
    /\ step = 0
    /\ dec_out = <<>>
    /\ enc_out = <<>>
    /\ src_mask = <<>>
    /\ log_probs = <<>>
    /\ alive = <<>>
    /\ origin = <<>>
    /\ is_finished = <<>>
    /\ hypotheses = <<>>
    /\ beam_done = <<>>
    /\ done = FALSE
    /\ sent = <<>>
    /\ lengths = <<>>
    /\ Constructed(FALSE, TRUE, <<VocabSize, VocabSize>>, 1, 0)
    /\ NoCall
    /\ other = NoOtherCall

\* forward, lines 45-89: build the engine, encode, repeat the source objects
\* beam_size times, start the decoder history with BOS.
Setup ==
    /\ pc = "start"
    /\ alive' = EngineInit(batch_size, beam_size, bos_index[tgt_lang])
    /\ origin' = <<>>
    /\ is_finished' = [r \in 1 .. (batch_size * beam_size) |-> FALSE]
    /\ hypotheses' = [b \in 1 .. batch_size |-> <<>>]
    /\ beam_done' = [b \in 1 .. batch_size |-> FALSE]
    /\ done' = FALSE
    /\ enc_out' = Repeat([e \in 1 .. batch_size |-> e], beam_size)
    /\ src_mask' = Repeat([e \in 1 .. batch_size |-> e], beam_size)
    /\ dec_out' = InitDecOut(batch_size, beam_size, bos_index[tgt_lang])
    /\ step' = 0
    /\ pc' = IF LoopContinues(0, max_length) THEN "decode" ELSE "format"
    /\ UNCHANGED <<config, transformer, other, call, log_probs, sent, lengths>>

\* forward, lines 97-104: one decoder call on the current rows (with
\* tgt_mask=None), then advance.
DecodeAdvance ==
    /\ pc = "decode"
    /\ LET lp == [i \in 1 .. Len(dec_out) |->
                    DecodeRow(model, enc_out[i], src_mask[i], dec_out[i])]
           a  == Advance(alive, lp, beam_size, batch_size)
       IN /\ log_probs' = lp
          /\ alive' = a.alive
          /\ origin' = a.origin
          /\ is_finished' = a.is_finished
    /\ op' = "decode"
    /\ args' = [tgt_mask |-> NoMask, tgt_lang |-> tgt_lang]
    /\ calls' = <<"decoder">>
    /\ pc' = "advanced"
    /\ UNCHANGED <<config, transformer, other, ret, step, dec_out, enc_out, src_mask,
                   hypotheses, beam_done, done, sent, lengths>>

\* forward, lines 109-113: update_finished if any row finished, break if done.
CheckFinished ==
    /\ pc = "advanced"
    /\ IF \E i \in DOMAIN is_finished : is_finished[i]
       THEN LET u == UpdateFinished(alive, origin, is_finished, hypotheses,
                                    n_best, batch_size)
            IN /\ alive' = u.alive
               /\ origin' = u.origin
               /\ is_finished' = u.is_finished
               /\ hypotheses' = u.hypotheses
               /\ beam_done' = u.beam_done
               /\ done' = u.done
               /\ pc' = IF BreakLoop(TRUE, u.done) THEN "format" ELSE "checked"
       ELSE /\ pc' = IF BreakLoop(FALSE, done) THEN "format" ELSE "checked"
            /\ UNCHANGED <<alive, origin, is_finished, hypotheses, beam_done, done>>
    /\ UNCHANGED <<config, transformer, other, call, step, dec_out, enc_out, src_mask, log_probs, sent, lengths>>

\* forward, lines 116-133: gather the per-row state by the origin indices,
\* append the chosen tokens, go to the next iteration.
Reorder ==
    /\ pc = "checked"
    /\ LET next_word == CurrentPredictions(alive)
           select_indices == origin
       IN /\ dec_out' = ReorderThenAppend(dec_out, select_indices, next_word)
          /\ enc_out' = GatherRows(enc_out, select_indices)
          /\ src_mask' = GatherRows(src_mask, select_indices)
    /\ step' = step + 1
    /\ pc' = IF LoopContinues(step + 1, max_length) THEN "decode" ELSE "format"
    /\ UNCHANGED <<config, transformer, other, call, log_probs, alive, origin, is_finished, hypotheses,
                   beam_done, done, sent, lengths>>

\* forward, lines 138-142, and format_sentences: beams[-1] of an example
\* without a recorded hypothesis is an index error, and lengths.max() of an
\* empty length vector (line 163, no example at all) is a runtime error.
Format ==
    /\ pc = "format"
    /\ IF \/ \E b \in DOMAIN hypotheses : hypotheses[b] = <<>>
          \/ FormatLengths(hypotheses) = <<>>
       THEN /\ pc' = "error"
            /\ UNCHANGED <<sent, lengths>>
       ELSE /\ sent' = FormatSentences(hypotheses, bos_index[tgt_lang])
            /\ lengths' = FormatLengths(hypotheses)
            /\ pc' = "done"
    /\ UNCHANGED <<config, transformer, other, call, step, dec_out, enc_out, src_mask, log_probs, alive,
                   origin, is_finished, hypotheses, beam_done, done>>

Next ==
    \/ Setup
    \/ DecodeAdvance
    \/ CheckFinished
    \/ Reorder
    \/ Format

Spec == Init /\ [][Next]_vars

\* --------------------------------------------- the Transformer's operations
\* target batches: rows of equal length over a start token and PAD
TgtBatches ==
    UNION { [1 .. B -> [1 .. L -> {bos_index[1], pad_index}]] :
                B \in 1 .. MaxRows, L \in 1 .. MaxTgtLen }

\* get_tgt_mask, line 32: np.tril(np.ones((batch_size, sent_len, sent_len)), k=0)
Tril(B, L) ==
    [b \in 1 .. B |-> [q \in 1 .. L |-> [k \in 1 .. L |-> IF k <= q THEN 1 ELSE 0]]]

\* get_tgt_mask, line 38: masked_fill_(tgt_batch.unsqueeze(-1) == pad_index, 0);
\* the condition has shape (batch, len, 1) and is broadcast over the last
\* dimension of the (batch, len, len) mask
MaskedFillPad(m, tgt_batch) ==
    [b \in DOMAIN m |-> [q \in DOMAIN m[b] |-> [k \in DOMAIN m[b][q] |->
        IF tgt_batch[b][q] = pad_index THEN 0 ELSE m[b][q][k]]]]

\* get_tgt_mask (trainer.py lines 27-40, Transformer.get_tgt_mask alike)
GetTgtMaskTensor(tgt_batch) ==
    MaskedFillPad(Tril(Len(tgt_batch), Len(tgt_batch[1])), tgt_batch)

\* DecoderLayer.forward, lines 20-33: line 22 reads the name dec_outputs,
\* which is no parameter, no local and no global of the module: NameError.
DecoderLayerForward(k, prev_outputs, tgt_mask) == [error |-> "NameError"]

\* StackedDecoder.forward, lines 70-71: the scaled, position-encoded
\* embeddings of the tokens, looked up in the table of the language
Embed(table, prev_outputs) ==
    [b \in DOMAIN prev_outputs |-> [p \in DOMAIN prev_outputs[b] |->
        2 * (table.id * VocabSize + prev_outputs[b][p]) + p]]

\* StackedDecoder.forward, lines 72-78: every layer is called on
\* prev_outputs, the value of the last call is returned; a name that was
\* never bound (no layer) is an UnboundLocalError.
StackedDecoderForward(n, tables, prev_outputs, tgt_mask, lang_id) ==
    LET x    == Embed(tables[lang_id], prev_outputs)
        outs == [k \in 1 .. n |-> DecoderLayerForward(k, x, tgt_mask)]
        bad  == {k \in 1 .. n : "error" \in DOMAIN outs[k]}
    IN IF n = 0 THEN [error |-> "UnboundLocalError"]
       ELSE IF bad # {} THEN outs[CHOOSE k \in bad : \A j \in bad : k <= j]
       ELSE outs[n]

\* token rows handed to the decoder
PrevOutputs ==
    UNION { [1 .. B -> [1 .. L -> {bos_index[1], eos_index}]] :
                B \in 1 .. MaxRows, L \in 1 .. MaxSeqLen }

\* keep patterns of the shape of x: torch.rand(...) >= word_drop, line 213
KeepPatterns(x) == [DOMAIN x -> [DOMAIN x[1] -> {0, 1}]]

\* the pattern as it was drawn
KeepAsDrawn(keep) == keep

\* word_dropout, line 216: keep[:, 0] = 1
KeepFirst(keep) ==
    [b \in DOMAIN keep |-> [p \in DOMAIN keep[b] |-> IF p = 1 THEN 1 ELSE keep[b][p]]]

\* word_dropout, lines 206-221
WordDropoutResult(wd, prev_output, drawn) ==
    IF wd = 0 THEN [tensor |-> prev_output]
    ELSE IF ~(0 < wd /\ wd < 100) THEN [error |-> "AssertionError"]
    ELSE LET keep == KeepFirst(drawn)
         IN [tensor |-> [b \in DOMAIN prev_output |-> [p \in DOMAIN prev_output[b] |->
                prev_output[b][p] * keep[b][p] + blank_index * (1 - keep[b][p])]]]

\* scaled scores QK^T / sqrt(d_k) of one head of one example, scores[q][k],
\* for query and key inputs of lengths Lq and Lk (sublayers.py line 102)
Scores ==
    { [q \in 1 .. Lq |-> [k \in 1 .. Lk |-> (q + 2 * k + c) % 2]] :
          Lq \in 1 .. MaxAttLen, Lk \in 1 .. MaxAttLen, c \in 0 .. 1 }

\* the masks a SelfAttention can be built with for scores of that shape:
\* None or any 0/1 tensor (one example: m[1][q][k])
AttentionMasks(scores) ==
    {NoMask} \cup
    { TensorMask(<<m>>) : m \in [DOMAIN scores -> [DOMAIN scores[1] -> {0, 1}]] }

\* SelfAttention.forward, lines 103-105: masked_fill(self.mask == 0, -1e9)
MaskedFill(scores, mask) ==
    [q \in DOMAIN scores |-> [k \in DOMAIN scores[q] |->
        IF ~mask.none /\ mask.m[1][q][k] = 0 THEN MaskedScore ELSE scores[q][k]]]

RECURSIVE SeqSum(_)
SeqSum(s) == IF s = <<>> THEN 0 ELSE s[1] + SeqSum(Tail(s))

\* exp(s - m) in floating point, in halves of exp(0): scores at the maximum
\* give 2, one below it 1, and the exponential of -1e9 underflows to 0
ExpBelowMax(sc, m) == IF sc = m THEN 2 ELSE IF sc = m - 1 THEN 1 ELSE 0

\* SelfAttention.forward, line 107: softmax(scores, dim=2); of the
\* dimensions (batch, heads, query, key) dimension 2 is the query position,
\* so the entries of one key column are normalised over the queries
SoftmaxDim2(scores) ==
    [q \in DOMAIN scores |-> [k \in DOMAIN scores[q] |->
        LET column == [r \in DOMAIN scores |-> scores[r][k]]
            m == SeqMax(column)
        IN [num |-> ExpBelowMax(scores[q][k], m),
            den |-> SeqSum([r \in DOMAIN column |-> ExpBelowMax(column[r], m)])]]]

\* SelfAttention.forward, lines 83-117: line 91 reads the module's global x,
\* which exists only when sublayers.py is the running script (line 124);
\* the attention weights are the softmax of the masked scores
SelfAttentionResult(x_global, scores, mask) ==
    IF x_global = "unbound" THEN [error |-> "NameError"]
    ELSE [weights |-> SoftmaxDim2(MaskedFill(scores, mask))]

\* After Transformer.__init__, for every configuration of the flags.
InitModel ==
    /\ pc = "start"
    /\ batch_size = 1
    /\ beam_size = 1
    /\ n_best = 1
    /\ max_length = 1
    /\ tgt_lang = 1
    /\ model = 0
    /\ step = 0
    /\ dec_out = <<>>
    /\ enc_out = <<>>
    /\ src_mask = <<>>
    /\ log_probs = <<>>
    /\ alive = <<>>
    /\ origin = <<>>
    /\ is_finished = <<>>
    /\ hypotheses = <<>>
    /\ beam_done = <<>>
    /\ done = FALSE
    /\ sent = <<>>
    /\ lengths = <<>>
    /\ \E v \in BOOLEAN, shared \in BOOLEAN, vs \in VocabSizes, n \in 0 .. MaxLayers,
          wd \in WordDrops :
          Constructed(v, shared, vs, n, wd)
    /\ NoCall
    /\ other = NoOtherCall

\* Transformer.encode, lines 105-118
Encode ==
    /\ op = "none"
    /\ \E z \in EncoderOutputs, n \in -1 .. MaxSamples, return_kl \in BOOLEAN :
         LET skip == SkipsSampling(is_variational, n)
         IN \E shift \in IF skip THEN {<<>>} ELSE Shifts(n, Len(z)) :
              /\ args' = [z |-> z, n_samples |-> n, return_kl |-> return_kl,
                          shift |-> shift]
              /\ calls' = IF skip THEN <<"encoder">> ELSE <<"encoder", "sample_z">>
              /\ ret' = IF skip THEN [tensor |-> z]
                        ELSE IF return_kl
                             THEN [tensor |-> SampleZ(z, shift, n), kl_div |-> "kl_div"]
                             ELSE [tensor |-> SampleZ(z, shift, n)]
    /\ op' = "encode"
    /\ UNCHANGED <<config, search, transformer, other>>

\* Transformer.sample_z, lines 139-180
SampleZCall ==
    /\ op = "none"
    /\ \E z \in EncoderOutputs, n \in 1 .. MaxSamples :
         \E shift \in Shifts(n, Len(z)) :
              /\ args' = [z |-> z, n_samples |-> n, shift |-> shift]
              /\ ret' = [tensor |-> SampleZ(z, shift, n), kl_div |-> "kl_div"]
    /\ calls' = <<>>
    /\ op' = "sample_z"
    /\ UNCHANGED <<config, search, transformer, other>>

\* Trainer.get_tgt_mask, lines 27-40
GetTgtMask ==
    /\ op = "none"
    /\ \E tgt_batch \in TgtBatches :
          /\ args' = [tgt_batch |-> tgt_batch]
          /\ ret' = [mask |-> TensorMask(GetTgtMaskTensor(tgt_batch))]
    /\ calls' = <<>>
    /\ op' = "get_tgt_mask"
    /\ UNCHANGED <<config, search, transformer, other>>

\* StackedDecoder.forward, lines 61-78
DecoderForward ==
    /\ op = "none"
    /\ \E prev_outputs \in PrevOutputs, lang_id \in DOMAIN embedding_layers,
          masked \in BOOLEAN :
         LET tgt_mask == IF masked THEN TensorMask(GetTgtMaskTensor(prev_outputs))
                                   ELSE NoMask
         IN /\ args' = [prev_outputs |-> prev_outputs, lang_id |-> lang_id,
                        tgt_mask |-> tgt_mask]
            /\ ret' = StackedDecoderForward(n_layers, embedding_layers,
                                            prev_outputs, tgt_mask, lang_id)
    /\ calls' = <<"embedding", "pos_enc">>
    /\ op' = "decoder_forward"
    /\ UNCHANGED <<config, search, transformer, other>>

\* Transformer.word_dropout, lines 204-221
WordDropout ==
    /\ op = "none"
    /\ \E prev_output \in PrevOutputs, lang_id \in DOMAIN bos_index :
         \E drawn \in KeepPatterns(prev_output) :
              /\ args' = [prev_output |-> prev_output, lang_id |-> lang_id,
                          keep |-> drawn]
              /\ ret' = WordDropoutResult(word_drop, prev_output, drawn)
    /\ calls' = <<>>
    /\ op' = "word_dropout"
    /\ UNCHANGED <<config, search, transformer, other>>

\* SelfAttention(mask).forward, sublayers.py lines 83-117
SelfAttentionForward ==
    /\ op = "none"
    /\ \E x_global \in {"unbound", "bound"}, scores \in Scores :
         \E mask \in AttentionMasks(scores) :
              /\ args' = [x_global |-> x_global, scores |-> scores, mask |-> mask]
              /\ ret' = SelfAttentionResult(x_global, scores, mask)
    /\ calls' = <<>>
    /\ op' = "self_attention"
    /\ UNCHANGED <<config, search, transformer, other>>

NextModel ==
    \/ Encode
    \/ SampleZCall
    \/ GetTgtMask
    \/ DecoderForward
    \/ WordDropout
    \/ SelfAttentionForward

ModelSpec == InitModel /\ [][NextModel]_vars

\* ------------------------------------------- two interleaved forward calls
\* The locals of a call of forward on a batch of B examples whose ids follow
\* `first`, before its first statement.
StartCall(B, lang, first) ==
    [pc |-> "start", batch_size |-> B, tgt_lang |-> lang, first |-> first,
     step |-> 0, dec_out |-> <<>>, enc_out |-> <<>>, src_mask |-> <<>>,
     alive |-> <<>>, origin |-> <<>>, is_finished |-> <<>>,
     hypotheses |-> <<>>, beam_done |-> <<>>, done |-> FALSE,
     sent |-> <<>>, lengths |-> <<>>]

\* the finished lists of the one engine of the wrapper
WrapperEngineHypotheses(st) == hypotheses

\* line 138: hypotheses = beamSearch.hypotheses, of the engine the call
\* created for itself at line 55
EngineHypotheses(st) == st.hypotheses

\* forward, lines 45-142, and format_sentences: one step of a call on its
\* locals st; beam_size, n_best, max_length and the model are read from the
\* wrapper.
ForwardStep(st) ==
    CASE st.pc = "start" ->
           [st EXCEPT
              !.alive = EngineInit(st.batch_size, beam_size, bos_index[st.tgt_lang]),
              !.is_finished = [r \in 1 .. (st.batch_size * beam_size) |-> FALSE],
              !.hypotheses = [b \in 1 .. st.batch_size |-> <<>>],
              !.beam_done = [b \in 1 .. st.batch_size |-> FALSE],
              !.enc_out = Repeat([e \in 1 .. st.batch_size |-> st.first + e], beam_size),
              !.src_mask = Repeat([e \in 1 .. st.batch_size |-> st.first + e], beam_size),
              !.dec_out = InitDecOut(st.batch_size, beam_size, bos_index[st.tgt_lang]),
              !.pc = IF LoopContinues(0, max_length) THEN "decode" ELSE "format"]
      [] st.pc = "decode" ->
           LET lp == [i \in 1 .. Len(st.dec_out) |->
                         DecodeRow(model, st.enc_out[i], st.src_mask[i], st.dec_out[i])]
               a  == Advance(st.alive, lp, beam_size, st.batch_size)
           IN [st EXCEPT !.alive = a.alive, !.origin = a.origin,
                         !.is_finished = a.is_finished, !.pc = "advanced"]
      [] st.pc = "advanced" ->
           IF \E i \in DOMAIN st.is_finished : st.is_finished[i]
           THEN LET u == UpdateFinished(st.alive, st.origin, st.is_finished,
                                        st.hypotheses, n_best, st.batch_size)
                IN [st EXCEPT !.alive = u.alive, !.origin = u.origin,
                              !.is_finished = u.is_finished,
                              !.hypotheses = u.hypotheses,
                              !.beam_done = u.beam_done, !.done = u.done,
                              !.pc = IF BreakLoop(TRUE, u.done) THEN "format"
                                                                ELSE "checked"]
           ELSE [st EXCEPT !.pc = IF BreakLoop(FALSE, st.done) THEN "format"
                                                               ELSE "checked"]
      [] st.pc = "checked" ->
           [st EXCEPT
              !.dec_out = ReorderThenAppend(st.dec_out, st.origin,
                                            CurrentPredictions(st.alive)),
              !.enc_out = GatherRows(st.enc_out, st.origin),
              !.src_mask = GatherRows(st.src_mask, st.origin),
              !.step = st.step + 1,
              !.pc = IF LoopContinues(st.step + 1, max_length) THEN "decode"
                                                               ELSE "format"]
      [] st.pc = "format" ->
           LET hyps == EngineHypotheses(st)
           IN IF \/ \E b \in DOMAIN hyps : hyps[b] = <<>>
                 \/ FormatLengths(hyps) = <<>>
              THEN [st EXCEPT !.pc = "error"]
              ELSE [st EXCEPT !.sent = FormatSentences(hyps, bos_index[st.tgt_lang]),
                              !.lengths = FormatLengths(hyps),
                              !.pc = "done"]
      [] OTHER -> st

\* One wrapper, two calls of forward on different batches about to start.
InitConc ==
    /\ pc = "start"
    /\ batch_size \in 1 .. MaxBatch
    /\ beam_size \in 1 .. MaxBeam
    /\ n_best \in 1 .. MaxNBest
    /\ max_length \in 1 .. ConcMaxLength
    /\ tgt_lang \in 1 .. Len(bos_index)
    /\ model \in 0 .. ConcModels
    /\ step = 0
    /\ dec_out = <<>>
    /\ enc_out = <<>>
    /\ src_mask = <<>>
    /\ log_probs = <<>>
    /\ alive = <<>>
    /\ origin = <<>>
    /\ is_finished = <<>>
    /\ hypotheses = <<>>
    /\ beam_done = <<>>
    /\ done = FALSE
    /\ sent = <<>>
    /\ lengths = <<>>
    /\ Constructed(FALSE, TRUE, <<VocabSize, VocabSize>>, 1, 0)
    /\ NoCall
    /\ \E B \in 1 .. MaxBatch, lang \in 1 .. Len(bos_index) :
          other = StartCall(B, lang, batch_size)

\* one step of the second call
OtherForward ==
    /\ other.pc \in {"start", "decode", "advanced", "checked", "format"}
    /\ other' = ForwardStep(other)
    /\ UNCHANGED <<config, search, transformer, call>>

NextConc ==
    \/ Setup
    \/ DecodeAdvance
    \/ CheckFinished
    \/ Reorder
    \/ Format
    \/ OtherForward

ConcSpec == InitConc /\ [][NextConc]_vars

\* ------------------------------------------------------------- properties
\* Number of entries of a finished list h that rank strictly ahead of /
\* not behind entry k, by the normalised score of the configured scorer.
Ahead(h, k) ==
    Cardinality({j \in DOMAIN h :
        AvgGreater(h[j].score, h[j].n, h[k].score, h[k].n)})

NotBehind(h, k) ==
    Cardinality({j \in DOMAIN h \ {k} :
        ~AvgGreater(h[k].score, h[k].n, h[j].score, h[j].n)})

\* positions of a row holding a given token
Positions(row, tok) == {p \in DOMAIN row : row[p] = tok}

\* C1: after every advance that does not end the loop, row i of dec_out is
\* the pre-step history of row current_origin[i] followed by
\* current_predictions[i], and it is the token sequence of live hypothesis i.
DecHistoryFollowsHypotheses ==
    [][pc = "checked" /\ pc' # "checked" =>
          /\ Len(dec_out') = Len(alive')
          /\ \A i \in DOMAIN alive' :
                /\ dec_out'[i] = Append(dec_out[origin[i]], Last(alive[i].toks))
                /\ dec_out'[i] = alive'[i].toks]_vars

\* a step in which a finished beam was removed and the surviving rows moved
DecHistoryAfterRemoval ==
    /\ pc = "decode"
    /\ step > 1
    /\ Len(dec_out) > 0
    /\ Len(dec_out) < batch_size * beam_size
    /\ \E i \in DOMAIN origin : origin[i] # i
    /\ \E i, j \in DOMAIN dec_out : dec_out[i] # dec_out[j]

\* C2: every returned row starts with BOS of the target language, contains
\* exactly one EOS and has no PAD before that EOS.
ReturnedRowsWellFormed ==
    pc = "done" =>
        \A i \in DOMAIN sent :
            /\ sent[i][1] = bos_index[tgt_lang]
            /\ Cardinality(Positions(sent[i], eos_index)) = 1
            /\ \A p \in Positions(sent[i], pad_index) :
                  \A q \in Positions(sent[i], eos_index) : p > q

\* C3: running all max_length steps with an example that has no finished
\* hypothesis does not make forward fail.
NoFailureAtMaxLength ==
    ~(pc = "error" /\ step = max_length
        /\ \E b \in DOMAIN hypotheses : hypotheses[b] = <<>>)

\* iterations still to go, counted in loop positions; 0 outside the loop
LoopMeasure(p, s, ml) ==
    IF p = "decode" THEN 3 * (ml - s) + 3
    ELSE IF p = "advanced" THEN 3 * (ml - s) + 2
    ELSE IF p = "checked" THEN 3 * (ml - s) + 1
    ELSE 0

\* one step inside the loop lowers the loop positions still to go, which
\* stay non-negative, and no iteration starts at or after step max_length
LoopStepDescends ==
    pc \in {"decode", "advanced", "checked"} =>
        /\ pc' # pc
        /\ LoopMeasure(pc', step', max_length) < LoopMeasure(pc, step, max_length)
        /\ LoopMeasure(pc', step', max_length) >= 0
        /\ step' <= max_length
        /\ (pc' = "decode" => step' < max_length)

\* C4: the decode loop terminates after at most max_length iterations,
\* whatever the decoder outputs are and whether or not the engine reports
\* done.
DecodeLoopBounded == [][LoopStepDescends]_vars

\* the loop ran all max_length iterations and the engine never reported done
RanAllSteps ==
    /\ pc = "format"
    /\ step = max_length
    /\ max_length = MaxLength
    /\ ~done

\* C5: the returned tensor is as wide as the longest formatted row, and row i
\* is BOS, the reported tokens in order, one EOS right behind them, then PAD.
FormatLayout ==
    pc = "done" =>
        /\ Len(sent) = batch_size
        /\ \A i \in DOMAIN sent :
              LET s == hypotheses[i][Len(hypotheses[i])].toks
              IN /\ \A j \in DOMAIN sent : Len(sent[i]) >= Len(hypotheses[j][Len(hypotheses[j])].toks) + 2
                 /\ \E j \in DOMAIN sent : Len(sent[i]) = Len(hypotheses[j][Len(hypotheses[j])].toks) + 2
                 /\ \A p \in DOMAIN sent[i] :
                       sent[i][p] = IF p = 1 THEN bos_index[tgt_lang]
                                    ELSE IF p <= Len(s) + 1 THEN s[p - 1]
                                    ELSE IF p = Len(s) + 2 THEN eos_index
                                    ELSE pad_index

\* a returned batch whose rows have different lengths, so that one is padded
FormatPadded ==
    /\ pc = "done"
    /\ batch_size = 2
    /\ lengths[1] # lengths[2]
    /\ lengths[1] > 3
    /\ lengths[2] > 3

\* C6: lengths[i] - 1 is the position of the only EOS of row i, and every
\* position at or after lengths[i] is PAD.
LengthsCountBosToEos ==
    pc = "done" =>
        \A i \in DOMAIN sent :
            /\ Positions(sent[i], eos_index) = {lengths[i]}
            /\ \A p \in DOMAIN sent[i] : p > lengths[i] => sent[i][p] = pad_index

\* C7: the reported hypothesis is the best-scoring finished one when
\* n_best = 1 and the n_best-th ranked finished one when n_best > 1.
ReportsRankedHypothesis ==
    pc = "done" =>
        \A b \in DOMAIN hypotheses :
            LET h == hypotheses[b]
            IN Len(h) >= n_best =>
                  /\ Ahead(h, Len(h)) <= n_best - 1
                  /\ NotBehind(h, Len(h)) >= n_best - 1

\* C8: the scenario returns [BOS,2,3,EOS,PAD] with length 4 for the first
\* example and [BOS,4,EOS,PAD,PAD] with length 3 for the second.
ScenarioOutput ==
    /\ pc \in {"done", "error"}
    /\ batch_size = 2 /\ beam_size = 3 /\ n_best = 1 /\ max_length = 4
    /\ model = 0
    => /\ pc = "done"
       /\ sent = << <<bos_index[tgt_lang], 2, 3, eos_index, pad_index>>,
                    <<bos_index[tgt_lang], 4, eos_index, pad_index, pad_index>> >>
       /\ lengths = <<4, 3>>

\* step-by-step arg-max decoding of example e: the highest log-probability
\* token (the lowest id among equals) at each step until EOS or max_length
RECURSIVE Greedy(_, _, _, _)
Greedy(m, e, prefix, ml) ==
    IF Len(prefix) - 1 >= ml THEN <<>>
    ELSE LET lp == DecodeRow(m, e, e, prefix)
             t  == CHOOSE x \in Vocab :
                      \A y \in Vocab : lp[x] > lp[y] \/ (lp[x] = lp[y] /\ x <= y)
         IN IF t = eos_index THEN <<t>>
            ELSE <<t>> \o Greedy(m, e, Append(prefix, t), ml)

RejectsNBestAboveBeam ==
    n_best > beam_size => pc = "start"

\* C11: forward on an empty source batch (batch_size = 0) raises no error
\* and returns an empty batch of sentences and an empty vector of lengths.
EmptyBatchReturnsEmpty ==
    (batch_size = 0 /\ pc \in {"format", "done", "error"}) =>
        (pc # "error" /\ (pc = "done" => sent = <<>> /\ lengths = <<>>))

\* C15: at every decoder step, row i of enc_out and row i of src_mask belong
\* to the source example of the beam that owns hypothesis row i.
SourceRowsAligned ==
    pc = "decode" =>
        /\ Len(enc_out) = Len(alive)
        /\ Len(src_mask) = Len(alive)
        /\ \A i \in DOMAIN alive :
              enc_out[i] = alive[i].beam /\ src_mask[i] = alive[i].beam

\* C16: in every iteration that does not break, whether or not a beam
\* finished in it, dec_out, enc_out and src_mask are gathered by the origin
\* indices of that step and the step's tokens are appended afterwards; the
\* history the next decoder call sees is the engine's live hypotheses, and
\* nothing else touches the three tensors.
GatherStep ==
    /\ pc = "checked" =>
          /\ Len(dec_out') = Len(origin)
          /\ Len(enc_out') = Len(origin)
          /\ Len(src_mask') = Len(origin)
          /\ \A i \in DOMAIN origin :
                /\ SubSeq(dec_out'[i], 1, Len(dec_out'[i]) - 1) = dec_out[origin[i]]
                /\ Last(dec_out'[i]) = CurrentPredictions(alive)[i]
                /\ enc_out'[i] = enc_out[origin[i]]
                /\ src_mask'[i] = src_mask[origin[i]]
    /\ pc \in {"decode", "advanced"} => UNCHANGED <<dec_out, enc_out, src_mask>>
    /\ pc' = "decode" => \A i \in DOMAIN alive' : dec_out'[i] = alive'[i].toks

GatherBeforeAppend == [][GatherStep]_vars

\* a reorder that moved rows in a step where no beam finished, after an
\* earlier step in which one did
GatheredWithoutFinish ==
    /\ pc = "decode"
    /\ step >= 2
    /\ \E i \in DOMAIN origin : origin[i] # i
    /\ \E b \in DOMAIN hypotheses : hypotheses[b] # <<>>
    /\ \A b \in DOMAIN hypotheses : \A k \in DOMAIN hypotheses[b] :
          Len(hypotheses[b][k].toks) < step

\* C17: the loop stops before max_length steps exactly when all beams are
\* done: it breaks in the step after which the engine's done flag is true,
\* no decoder step runs once done is true, and it never breaks while some
\* beam is not done.
BreakStep ==
    /\ pc = "decode" => ~done
    /\ (pc = "advanced" /\ pc' = "format") =>
          (done' /\ \A b \in DOMAIN beam_done' : beam_done'[b])
    /\ (pc = "advanced" /\ done') => pc' = "format"
    /\ pc # "advanced" => done' = done

BreaksExactlyWhenDone == [][BreakStep]_vars

\* a break with two examples before the last permitted step
StoppedEarly ==
    /\ pc = "format"
    /\ done
    /\ step + 1 < max_length
    /\ batch_size = 2
    /\ beam_size >= 2

\* the members of a sequence
Range(s) == {s[i] : i \in DOMAIN s}

\* C12: Transformer.encode returns the encoder output unchanged and never
\* invokes sample_z whenever the model is not variational or n_samples <= 0;
\* the result is the encoder output alone (no KL term) for either return_kl.
EncodePassesThrough ==
    (op = "encode" /\ (~is_variational \/ args.n_samples <= 0)) =>
        /\ ret = [tensor |-> args.z]
        /\ "sample_z" \notin Range(calls)

\* a variational model asked for no sample and for the KL term
EncodeVariationalNoSample ==
    /\ op = "encode"
    /\ is_variational
    /\ args.n_samples <= 0
    /\ args.return_kl
    /\ Len(args.z) = MaxRows
    /\ ret = [tensor |-> args.z]

\* C13: in sample_z, output row s * batch_size + b at position p is
\* z[b][p] + shift[s][b] for every p: the shift depends on the sample and
\* the example only, never on the position.
ShiftSharedByPositions ==
    (op = "sample_z" \/ (op = "encode" /\ "sample_z" \in Range(calls))) =>
        LET B == Len(args.z)
        IN /\ Len(ret.tensor) = args.n_samples * B
           /\ \A s \in 0 .. (args.n_samples - 1) : \A b \in 0 .. (B - 1) :
                 /\ Len(ret.tensor[s * B + b + 1]) = Len(args.z[b + 1])
                 /\ \A p \in DOMAIN args.z[b + 1] :
                       ret.tensor[s * B + b + 1][p] =
                           args.z[b + 1][p] + args.shift[s + 1][b + 1]

\* two samples of two examples of two positions, with shifts that differ
\* between the samples and between the examples
SampledTwoByTwo ==
    /\ op = "sample_z"
    /\ args.n_samples = 2
    /\ Len(args.z) = 2
    /\ Len(args.z[1]) = 2
    /\ args.z[1][1] # args.z[1][2]
    /\ args.shift[1][1] # args.shift[2][1]
    /\ args.shift[1][1] # args.shift[1][2]

\* the tables of one kind follow the flag: one object for every language, or
\* one object per language allocated with that language's vocabulary size
TablesByFlag(tables) ==
    /\ DOMAIN tables = DOMAIN vocab_size
    /\ IF is_shared_emb
       THEN \A l, m \in DOMAIN tables : tables[l].id = tables[m].id
       ELSE \A l, m \in DOMAIN tables :
               /\ l # m => tables[l].id # tables[m].id
               /\ tables[l].size = vocab_size[l]

\* C14: the per-language embedding tables and output-projection tables are
\* fixed at construction by is_shared_emb (one shared table object, or one
\* table per language sized by that language's vocabulary), and no
\* operation of the model changes which table a language id maps to.
TablesStep ==
    /\ TablesByFlag(embedding_layers)
    /\ TablesByFlag(linear_layers)
    /\ embedding_layers' = embedding_layers
    /\ linear_layers' = linear_layers
    /\ is_shared_emb' = is_shared_emb

TablesFixedAtConstruction == [][TablesStep]_vars

\* the decoder has looked up a language's table in a model with one table
\* per language and vocabularies of different sizes
DecodedWithOwnTables ==
    /\ op = "decoder_forward"
    /\ ~is_shared_emb
    /\ vocab_size[1] # vocab_size[2]
    /\ args.lang_id = 2
    /\ embedding_layers[2].size = vocab_size[2]

\* what a target mask means: query position q of row b may attend to key
\* position k unless a mask tensor holds 0 there; no mask forbids nothing
Allows(mask, b, q, k) == mask.none \/ mask.m[b][q][k] # 0

\* C18: the mask built by get_tgt_mask lets query position i attend to key
\* position j only if j <= i and the token at position j is not PAD, for
\* every target batch, wherever its PAD tokens are.
TgtMaskHidesFutureAndPad ==
    op = "get_tgt_mask" =>
        \A b \in DOMAIN args.tgt_batch :
            \A i, j \in DOMAIN args.tgt_batch[b] :
                Allows(ret.mask, b, i, j) =>
                    (j <= i /\ args.tgt_batch[b][j] # pad_index)

\* C19: at every step of the beam-search loop the decoder call is given a
\* target mask that forbids every prefix position from attending to a later
\* prefix position.
BeamDecoderCausallyMasked ==
    (pc = "advanced" /\ op = "decode") =>
        \A b \in DOMAIN dec_out : \A q, k \in DOMAIN dec_out[b] :
            Allows(args.tgt_mask, b, q, k) => k <= q

\* the output of decoder layer k on input x
LayerOutput(k, x) ==
    [b \in DOMAIN x |-> [p \in DOMAIN x[b] |-> 3 * x[b][p] + k]]

RECURSIVE Chain(_, _)
Chain(n, x) == IF n = 0 THEN x ELSE LayerOutput(n, Chain(n - 1, x))

\* C20: StackedDecoder.forward applies its N layers as a chain: layer 1
\* consumes the scaled, position-encoded embeddings, layer k > 1 consumes
\* the output of layer k - 1, and the output of layer N is returned.
LayersChained ==
    op = "decoder_forward" =>
        ret = [tensor |-> Chain(n_layers,
                  Embed(embedding_layers[args.lang_id], args.prev_outputs))]

\* C23: the decoder history starts as batch_size * beam_size rows that hold
\* only the target language's BOS id; after k completed iterations every
\* row of dec_out has k + 1 tokens and still begins with that BOS id, and
\* dec_out, enc_out and src_mask always have the same number of rows.
DecOutShape ==
    pc # "start" =>
        /\ Len(enc_out) = Len(dec_out)
        /\ Len(src_mask) = Len(dec_out)
        /\ step = 0 => Len(dec_out) = batch_size * beam_size
        /\ \A i \in DOMAIN dec_out :
              /\ Len(dec_out[i]) = step + 1
              /\ dec_out[i][1] = bos_index[tgt_lang]

\* three completed iterations in the second language, with rows removed
ThreeStepsFewerRows ==
    /\ pc = "decode"
    /\ step = 3
    /\ tgt_lang = 2
    /\ Len(dec_out) > 0
    /\ Len(dec_out) < batch_size * beam_size

\* C24: word_dropout never changes position 0 of a row, returns a tensor of
\* the shape of its input in which every token is the original token or
\* blank_index, and returns its input unchanged when word_drop is 0, for
\* every keep pattern (word_drop being 0 or a proper fraction).
WordDropoutKeepsStart ==
    (op = "word_dropout" /\ word_drop < 100) =>
        /\ DOMAIN ret = {"tensor"}
        /\ DOMAIN ret.tensor = DOMAIN args.prev_output
        /\ \A b \in DOMAIN args.prev_output :
              /\ DOMAIN ret.tensor[b] = DOMAIN args.prev_output[b]
              /\ ret.tensor[b][1] = args.prev_output[b][1]
              /\ \A p \in DOMAIN args.prev_output[b] :
                    ret.tensor[b][p] \in {args.prev_output[b][p], blank_index}
        /\ word_drop = 0 => ret.tensor = args.prev_output

\* a pattern that drew position 0 for blanking and blanked a later token
BlankedLaterToken ==
    /\ op = "word_dropout"
    /\ word_drop = 50
    /\ Len(args.prev_output) = 2
    /\ Len(args.prev_output[1]) = 2
    /\ args.keep[1][1] = 0
    /\ args.keep[2][2] = 0
    /\ ret.tensor[2][2] = blank_index
    /\ ret.tensor[1][1] = args.prev_output[1][1]

\* C21: in SelfAttention.forward the mask is applied to the scaled scores
\* before the softmax and the softmax normalises over the key dimension, so
\* that for every query position the weight of every masked-out key is zero
\* (for masks that leave every query at least one key to attend to).
MaskedKeysGetNoWeight ==
    (/\ op = "self_attention"
     /\ \A q \in DOMAIN args.scores :
           \E k \in DOMAIN args.scores[q] : Allows(args.mask, 1, q, k)) =>
        /\ DOMAIN ret = {"weights"}
        /\ \A q \in DOMAIN args.scores :
              /\ \A k \in DOMAIN args.scores[q] :
                    /\ ~Allows(args.mask, 1, q, k) => ret.weights[q][k].num = 0
                    /\ ret.weights[q][k].den =
                           SeqSum([j \in DOMAIN args.scores[q] |-> ret.weights[q][j].num])

\* what a call of forward returns when it runs alone from the locals st
RECURSIVE RunAlone(_)
RunAlone(st) ==
    IF st.pc \in {"done", "error"}
    THEN [pc |-> st.pc, sent |-> st.sent, lengths |-> st.lengths]
    ELSE RunAlone(ForwardStep(st))

\* C22: two calls of forward on different batches that interleave on the
\* same wrapper and model each end with the result the call gives alone,
\* and no step of either writes a field of the wrapper or of the model.
CallsStep ==
    /\ pc' \in {"done", "error"} =>
          [pc |-> pc', sent |-> sent', lengths |-> lengths'] =
              RunAlone(StartCall(batch_size, tgt_lang, 0))
    /\ other'.pc \in {"done", "error"} =>
          [pc |-> other'.pc, sent |-> other'.sent, lengths |-> other'.lengths] =
              RunAlone(StartCall(other.batch_size, other.tgt_lang, other.first))
    /\ UNCHANGED <<beam_size, n_best, max_length, model, transformer>>

InterleavedCallsIndependent == [][CallsStep]_vars

\* both calls have returned, with different sentences
BothCallsReturned ==
    /\ pc = "done"
    /\ other.pc = "done"
    /\ step >= 1
    /\ other.step >= 1
    /\ batch_size # other.batch_size
    /\ sent # other.sent

====
